---- MODULE Spec2Model ----
(***************************************************************************)
(* Model of the epidemic simulation of src/main.py (Epidemic_Network) and  *)
(* of the household-clique network builder of src/network_generator.py.   *)
(*                                                                         *)
(* The constructor of Epidemic_Network runs the whole simulation: it      *)
(* builds the contact graph, seeds the infection and then runs the day    *)
(* loop (count, progress, transmit, day += 1, NPI check).  `pc' is the     *)
(* position of the constructor; each action is one call of the loop body. *)
(* Probabilities are integers in percent (0 .. 100).                       *)
(***************************************************************************)
EXTENDS Integers, Sequences, FiniteSets, TLC

(* ------------------------------ bounds --------------------------------- *)
MaxDays == 3
MaxD == 2
MaxI0 == 2

(* --------------------------- input domains ----------------------------- *)
RSet == {[intra |-> 0, inter |-> 0], [intra |-> 100, inter |-> 100],
         [intra |-> 50, inter |-> 100]}
PlainSizes == {4}
HouseholdDistributions == {<<2, 1, 1, 1>>, <<1, 3>>}
DSet == {2}
EpsilonSet == {0, 100}

VARIABLES pc, parameters, npi_parameters, max_days, day,
          G_nodes, G_adj, connection_type, status, days_with_disease,
          daily_cases,
          seeds, infected_on, trials, new_infections, counted, npi_log,
          call, returned

vars == <<pc, parameters, npi_parameters, max_days, day,
          G_nodes, G_adj, connection_type, status, days_with_disease,
          daily_cases,
          seeds, infected_on, trials, new_infections, counted, npi_log,
          call, returned>>

(* ------------------------- generic helpers ----------------------------- *)
InSeq(x, s) == \E i \in 1..Len(s) : s[i] = x

RECURSIVE SumSeq(_)
SumSeq(s) == IF s = <<>> THEN 0 ELSE Head(s) + SumSeq(Tail(s))

RECURSIVE SetToSortedSeq(_)
SetToSortedSeq(S) ==
  IF S = {} THEN <<>>
  ELSE LET m == CHOOSE x \in S : \A y \in S : x <= y
       IN <<m>> \o SetToSortedSeq(S \ {m})

(* absent dictionary key *)
None == -1

(* {**a, **b} *)
Merge(a, b) ==
  [key \in (DOMAIN a) \cup (DOMAIN b) |->
     IF key \in DOMAIN b THEN b[key] ELSE a[key]]

(* ---------------------- networkx graph primitives ---------------------- *)
(* A graph is its adjacency: node -> sequence of neighbours in insertion   *)
(* order (the order in which networkx iterates them).                      *)
empty_graph(n) == [u \in 0..(n - 1) |-> <<>>]

add_edge(adj, u, v) ==
  IF InSeq(v, adj[u]) THEN adj
  ELSE [x \in DOMAIN adj |->
          IF x = u THEN Append(adj[x], v)
          ELSE IF x = v THEN Append(adj[x], u)
          ELSE adj[x]]

remove_edge(adj, u, v) ==
  [x \in DOMAIN adj |->
     IF x = u THEN SelectSeq(adj[x], LAMBDA y : y # v)
     ELSE IF x = v THEN SelectSeq(adj[x], LAMBDA y : y # u)
     ELSE adj[x]]

RECURSIVE add_edges_from(_, _)
add_edges_from(adj, es) ==
  IF es = <<>> THEN adj
  ELSE add_edges_from(add_edge(adj, Head(es)[1], Head(es)[2]), Tail(es))

Edges(adj) ==
  {{e[1], e[2]} : e \in {x \in (DOMAIN adj) \X (DOMAIN adj) :
                            InSeq(x[2], adj[x[1]])}}

(* G.edges(): every edge once, from the first endpoint in node order *)
RECURSIVE EdgeList(_, _, _)
EdgeList(adj, order, seen) ==
  IF order = <<>> THEN <<>>
  ELSE LET n == Head(order)
       IN SelectSeq([i \in 1..Len(adj[n]) |-> <<n, adj[n][i]>>],
                    LAMBDA e : e[2] \notin seen)
          \o EdgeList(adj, Tail(order), seen \cup {n})

(* ----------------------- nx.watts_strogatz_graph ----------------------- *)
NumRingPairs(n, k) == (k \div 2) * n

RingPair(n, idx) ==
  LET j == (idx \div n) + 1
      u == idx % n
  IN <<u, (u + j) % n>>

RingPairs(n, k) == [i \in 1..NumRingPairs(n, k) |-> RingPair(n, i - 1)]

complete_graph(n) ==
  add_edges_from(empty_graph(n),
     SelectSeq([i \in 1..(n * n) |-> <<(i - 1) \div n, (i - 1) % n>>],
               LAMBDA e : e[1] < e[2]))

RECURSIVE Rewire(_, _, _, _, _)
Rewire(adj, n, k, p, idx) ==
  IF idx >= NumRingPairs(n, k) THEN {adj}
  ELSE LET u == RingPair(n, idx)[1]
           v == RingPair(n, idx)[2]
           valid == {w \in 0..(n - 1) : w # u /\ ~InSeq(w, adj[u])}
           kept == IF p < 100 THEN {adj} ELSE {}
           rewired == IF p > 0
                      THEN IF valid = {} THEN {adj}
                           ELSE {add_edge(remove_edge(adj, u, v), u, w) :
                                   w \in valid}
                      ELSE {}
       IN UNION {Rewire(a, n, k, p, idx + 1) : a \in kept \cup rewired}

watts_strogatz_raises(n, k) == k > n

watts_strogatz_graph(n, k, p) ==
  IF k = n THEN {complete_graph(n)}
  ELSE Rewire(add_edges_from(empty_graph(n), RingPairs(n, k)), n, k, p, 0)


(* ------------------- src/network_generator.py -------------------------- *)
(* python slice lst[a:b] of a 1-based sequence, for 0 <= a *)
Slice(lst, a, b) ==
  LET hi == IF b > Len(lst) THEN Len(lst) ELSE b
  IN IF hi <= a THEN <<>> ELSE [i \in 1..(hi - a) |-> lst[a + i]]

create_edges_star(current_node, new_nodes) ==
  [i \in 1..Len(new_nodes) |-> <<current_node, new_nodes[i]>>]

create_edges(current_node, new_nodes) ==
  LET node_list == <<current_node>> \o new_nodes
      m == Len(node_list)
  IN SelectSeq([i \in 1..(m * m) |->
                  <<node_list[((i - 1) \div m) + 1], node_list[((i - 1) % m) + 1]>>],
               LAMBDA e : e[1] # e[2])

SetType(ct, es, tag) ==
  LET new == {{es[i][1], es[i][2]} : i \in 1..Len(es)}
  IN [e \in (DOMAIN ct) \cup new |-> IF e \in new THEN tag ELSE ct[e]]

RECURSIVE CliqueLoop(_, _, _, _, _)
CliqueLoop(g, distribution, new_node_list, i, a) ==
  IF i >= Len(distribution) THEN g
  ELSE IF distribution[i + 1] = 1
       THEN CliqueLoop(g, distribution, new_node_list, i + 1, a)
       ELSE LET house_nodes == Slice(new_node_list, a, a + distribution[i + 1] - 1)
                edges == create_edges(i, house_nodes)
                g2 == [adj |-> add_edges_from(g.adj, edges),
                       ct |-> SetType(g.ct, edges, "intra")]
            IN CliqueLoop(g2, distribution, new_node_list, i + 1,
                          a + distribution[i + 1] - 1)

add_cliques_to_network(graph, distribution) ==
  LET graph_len == Cardinality(DOMAIN graph.adj)
      total == SumSeq(distribution)
      new_node_list == [i \in 1..(total - graph_len) |-> graph_len + i - 1]
      G0 == [adj |-> [u \in (DOMAIN graph.adj) \cup
                            {new_node_list[i] : i \in 1..Len(new_node_list)} |->
                        IF u \in DOMAIN graph.adj THEN graph.adj[u] ELSE <<>>],
             ct |-> graph.ct]
  IN CliqueLoop(G0, distribution, new_node_list, 0, 0)

InterTagged(adj) == [adj |-> adj, ct |-> [e \in Edges(adj) |-> "inter"]]

(* is_list: len(distribution) does not raise TypeError *)
watts_strogatz_clique_graph(distribution, is_list, k, p) ==
  IF is_list
  THEN {add_cliques_to_network(InterTagged(a), distribution) :
          a \in watts_strogatz_graph(Len(distribution), k, p)}
  ELSE {InterTagged(a) : a \in watts_strogatz_graph(distribution, k, p)}


(* --------------------------- src/main.py ------------------------------- *)
NodeOrder == SetToSortedSeq(G_nodes)

get_by_status_with_recovered(st, wanted) ==
  SelectSeq(NodeOrder, LAMBDA person : st[person] \in {wanted, "recovered"})

get_by_status_everyone(st, wanted) == NodeOrder

get_by_status(st, wanted) ==
  SelectSeq(NodeOrder, LAMBDA person : st[person] = wanted)

infection_occurred_ignores_zero(connection) ==
  LET rate == parameters["r"][connection]
  IN {TRUE} \cup (IF rate < 100 THEN {FALSE} ELSE {})

infection_occurred_may_fail(connection) ==
  LET rate == parameters["r"][connection]
  IN (IF rate > 0 THEN {TRUE} ELSE {}) \cup {FALSE}

(* random.choices([True, False], weights=[r, 1 - r])[0] *)
infection_occurred(connection) ==
  LET rate == parameters["r"][connection]
  IN (IF rate > 0 THEN {TRUE} ELSE {}) \cup (IF rate < 100 THEN {FALSE} ELSE {})

is_susceptible_target_any_uninfected(st0, st, person2) ==
  st[person2] # "infected"

is_susceptible_target_eager(st0, st, person2) == st0[person2] = "susceptible"

(* the filter of the lazy generator `susceptibles': evaluated when the     *)
(* edge is reached, on the status map as it is then (st), not as it was    *)
(* when the step began (st0)                                               *)
is_susceptible_target(st0, st, person2) == st[person2] = "susceptible"

count_all_infected(dw) == Cardinality({person \in DOMAIN dw : dw[person] # None})

(* number_of_days_with_infection.count(1) *)
count_new_cases(dw) == Cardinality({person \in DOMAIN dw : dw[person] = 1})

parse_attr_keeps_field(days, d) ==
  IF days >= d
  THEN [status |-> "recovered", days_with_disease |-> days]
  ELSE [status |-> "infected", days_with_disease |-> days + 1]

parse_attr_no_increment(days, d) ==
  IF days >= d
  THEN [status |-> "recovered", days_with_disease |-> None]
  ELSE [status |-> "infected", days_with_disease |-> days]

(* parse_attr of update_disease_progress, on one infected node *)
parse_attr(days, d) ==
  IF days >= d
  THEN [status |-> "recovered", days_with_disease |-> None]
  ELSE [status |-> "infected", days_with_disease |-> days + 1]

(* the loop of interact over G.edges(infected, data=True): sources in node *)
(* order, each source's neighbours in adjacency order, an edge between two *)
(* sources reported once.  Yields every outcome the random draws allow.    *)
RECURSIVE InteractLoop(_, _, _, _, _, _, _)
InteractLoop(st0, st, dw, log, infected, si, ni) ==
  IF si > Len(infected)
  THEN {[status |-> st, days_with_disease |-> dw, trials |-> log, raised |-> FALSE]}
  ELSE LET person1 == infected[si] IN
    IF ni > Len(G_adj[person1])
    THEN InteractLoop(st0, st, dw, log, infected, si + 1, 1)
    ELSE LET person2 == G_adj[person1][ni]
             seen == {infected[i] : i \in 1..(si - 1)}
      IN IF person2 \in seen \/ ~is_susceptible_target(st0, st, person2)
         THEN InteractLoop(st0, st, dw, log, infected, si, ni + 1)
         ELSE IF {person1, person2} \notin DOMAIN connection_type
         THEN {[status |-> st, days_with_disease |-> dw, trials |-> log,
                raised |-> TRUE]}
         ELSE LET ctype == connection_type[{person1, person2}]
                  entry(o) == [person1 |-> person1, person2 |-> person2,
                               connection_type |-> ctype,
                               source_at_start |-> st0[person1],
                               target_at_trial |-> st[person2],
                               occurred |-> o]
              IN UNION {
                   IF o
                   THEN InteractLoop(st0,
                          [st EXCEPT ![person2] = "infected"],
                          [dw EXCEPT ![person2] = 1],
                          Append(log, entry(o)), infected, si, ni + 1)
                   ELSE InteractLoop(st0, st, dw, Append(log, entry(o)),
                                     infected, si, ni + 1)
                   : o \in infection_occurred(ctype)}

npi_due_from_start_day(npi, today) ==
  DOMAIN npi # {} /\ npi["npi_start_day"] <= today

(* `self.npi_parameters and self.npi_parameters["npi_start_day"] == day' *)
npi_due(npi, today) ==
  DOMAIN npi # {} /\ npi["npi_start_day"] = today

touches_structure_always(npi) == TRUE

(* any(k in self.npi_parameters for k in ("D", "epsilon")) *)
touches_structure(npi) == \E key \in {"D", "epsilon"} : key \in DOMAIN npi

(* while day <= max_days *)
LoopTest(today) == IF today <= max_days THEN "count" ELSE "done"

(* -------------------------- configurations ----------------------------- *)
Shapes ==
  {[n |-> size] : size \in PlainSizes} \cup
  {[household_distribution |-> h] : h \in HouseholdDistributions}

Base ==
  [D : DSet, epsilon : EpsilonSet, r : RSet, d : 1..MaxD, i0 : 1..MaxI0]

ParameterSet == {Merge(b, s) : b \in Base, s \in Shapes}

Overrides ==
  {[r |-> [intra |-> 100, inter |-> 100]],
   [d |-> MaxD + 1],
   [r |-> [intra |-> 0, inter |-> 0], d |-> 1],
   [D |-> 2, epsilon |-> 0]}

NoNPI == [key \in {} |-> 0]

NpiSet ==
  {NoNPI} \cup
  {Merge(o, [npi_start_day |-> t]) : o \in Overrides, t \in 1..(MaxDays + 1)}

(* no builder call is in progress while the engine is constructed *)
NoCall == [op |-> "none"]
NotReturned == [done |-> FALSE]

Init ==
  /\ pc = "generate"
  /\ parameters \in ParameterSet
  /\ npi_parameters \in NpiSet
  /\ max_days = MaxDays
  /\ day = 1
  /\ G_nodes = {}
  /\ G_adj = <<>>
  /\ connection_type = <<>>
  /\ status = <<>>
  /\ days_with_disease = <<>>
  /\ daily_cases = <<>>
  /\ seeds = {}
  /\ infected_on = <<>>
  /\ trials = <<>>
  /\ new_infections = <<>>
  /\ counted = <<>>
  /\ npi_log = <<>>
  /\ call = NoCall
  /\ returned = NotReturned


(* ------------------------------ actions -------------------------------- *)
Halt == UNCHANGED <<call, returned, parameters, npi_parameters, max_days, day, G_nodes, G_adj,
                    connection_type, status, days_with_disease, daily_cases,
                    seeds, infected_on, trials, new_infections, counted, npi_log>>

(* __init__ lines 70-79 and generate_epidemic_network *)
generate_epidemic_network ==
  /\ pc = "generate"
  /\ LET is_list == "household_distribution" \in DOMAIN parameters
         distribution == IF is_list THEN parameters["household_distribution"]
                         ELSE parameters["n"]
         n == IF is_list THEN Len(distribution) ELSE distribution
     IN IF watts_strogatz_raises(n, parameters["D"])
        THEN pc' = "raised" /\ Halt
        ELSE \E g \in watts_strogatz_clique_graph(distribution, is_list,
                         parameters["D"], parameters["epsilon"]) :
               /\ G_nodes' = DOMAIN g.adj
               /\ G_adj' = g.adj
               /\ connection_type' = g.ct
               /\ status' = [person \in DOMAIN g.adj |-> "susceptible"]
               /\ days_with_disease' = [person \in DOMAIN g.adj |-> None]
               /\ infected_on' = [person \in DOMAIN g.adj |-> None]
               /\ counted' = [person \in DOMAIN g.adj |-> 0]
               /\ pc' = "seed"
               /\ UNCHANGED <<call, returned, parameters, npi_parameters, max_days, day,
                              daily_cases, seeds, trials, new_infections, npi_log>>

(* random.sample raises ValueError when the sample is larger than the      *)
(* population; otherwise any i0 distinct nodes are set to self.infected    *)
distribute_initial_infection ==
  /\ pc = "seed"
  /\ LET number_of_infections == parameters["i0"]
     IN IF number_of_infections > Cardinality(G_nodes) \/ number_of_infections < 0
        THEN pc' = "raised" /\ Halt
        ELSE \E random_infected_people \in SUBSET G_nodes :
               /\ Cardinality(random_infected_people) = number_of_infections
               /\ status' = [person \in G_nodes |->
                               IF person \in random_infected_people
                               THEN "infected" ELSE status[person]]
               /\ days_with_disease' = [person \in G_nodes |->
                               IF person \in random_infected_people
                               THEN 1 ELSE days_with_disease[person]]
               /\ seeds' = random_infected_people
               /\ infected_on' = [person \in G_nodes |->
                               IF person \in random_infected_people
                               THEN 0 ELSE infected_on[person]]
               /\ pc' = LoopTest(day)
               /\ UNCHANGED <<call, returned, parameters, npi_parameters, max_days, day, G_nodes,
                              G_adj, connection_type, daily_cases, trials,
                              new_infections, counted, npi_log>>

count_daily_cases ==
  /\ pc = "count"
  /\ daily_cases' = Append(daily_cases, count_new_cases(days_with_disease))
  /\ counted' = [person \in G_nodes |->
                   IF days_with_disease[person] = 1
                   THEN counted[person] + 1 ELSE counted[person]]
  /\ pc' = "progress"
  /\ UNCHANGED <<call, returned, parameters, npi_parameters, max_days, day, G_nodes, G_adj,
                 connection_type, status, days_with_disease, seeds, infected_on,
                 trials, new_infections, npi_log>>

update_disease_progress ==
  /\ pc = "progress"
  /\ LET updated_infected ==
           [person \in {q \in G_nodes : status[q] = "infected"} |->
              parse_attr(days_with_disease[person], parameters["d"])]
     IN /\ status' = [person \in G_nodes |->
                        IF person \in DOMAIN updated_infected
                        THEN updated_infected[person].status
                        ELSE status[person]]
        /\ days_with_disease' = [person \in G_nodes |->
                        IF person \in DOMAIN updated_infected
                        THEN updated_infected[person].days_with_disease
                        ELSE days_with_disease[person]]
  /\ pc' = "transmit"
  /\ UNCHANGED <<call, returned, parameters, npi_parameters, max_days, day, G_nodes, G_adj,
                 connection_type, daily_cases, seeds, infected_on, trials,
                 new_infections, counted, npi_log>>

(* a KeyError on an edge without connection_type aborts the run with the   *)
(* infections made so far in place                                         *)
interact ==
  /\ pc = "transmit"
  /\ \E out \in InteractLoop(status, status, days_with_disease, <<>>,
                             get_by_status(status, "infected"), 1, 1) :
       /\ status' = out.status
       /\ days_with_disease' = out.days_with_disease
       /\ trials' = out.trials
       /\ infected_on' = [person \in G_nodes |->
                            IF status[person] # "infected" /\ out.status[person] = "infected"
                            THEN day ELSE infected_on[person]]
       /\ new_infections' = Append(new_infections,
             Cardinality({person \in G_nodes :
                status[person] = "susceptible" /\ out.status[person] = "infected"}))
       /\ pc' = IF out.raised THEN "raised" ELSE "advance"
  /\ UNCHANGED <<call, returned, parameters, npi_parameters, max_days, day, G_nodes, G_adj,
                 connection_type, daily_cases, seeds, counted, npi_log>>

(* day += 1 and the test of line 91 *)
advance_day ==
  /\ pc = "advance"
  /\ day' = day + 1
  /\ pc' = IF npi_due(npi_parameters, day + 1) THEN "npi" ELSE LoopTest(day + 1)
  /\ UNCHANGED <<call, returned, parameters, npi_parameters, max_days, G_nodes, G_adj,
                 connection_type, status, days_with_disease, daily_cases,
                 seeds, infected_on, trials, new_infections, counted, npi_log>>

make_structural_changes_new_graph(g, H) ==
  [adj |-> H,
   ct |-> [e \in {} |-> "inter"],
   status |-> [person \in DOMAIN H |-> "susceptible"],
   days_with_disease |-> [person \in DOMAIN H |-> None]]

(* __make_structural_changes on self.G = g, H the graph drawn by           *)
(* nx.watts_strogatz_graph: the edges of G are removed and those of H      *)
(* added, without attributes; the node dictionaries are not touched        *)
make_structural_changes(g, H) ==
  [adj |-> add_edges_from([person \in DOMAIN g.adj |-> <<>>],
                          EdgeList(H, SetToSortedSeq(DOMAIN H), {})),
   ct |-> [e \in {} |-> "inter"],
   status |-> g.status,
   days_with_disease |-> g.days_with_disease]

(* __apply_NPI with __make_structural_changes *)
apply_NPI ==
  /\ pc = "npi"
  /\ parameters' = Merge(parameters, npi_parameters)
  /\ npi_log' = Append(npi_log, [day |-> day,
                                 counts |-> Len(daily_cases),
                                 transmits |-> Len(new_infections),
                                 adj_before |-> G_adj,
                                 types_before |-> connection_type,
                                 parameters_before |-> parameters,
                                 status_before |-> status,
                                 days_before |-> days_with_disease])
  /\ IF touches_structure(npi_parameters)
     THEN LET n == Cardinality(G_nodes) IN
          IF watts_strogatz_raises(n, parameters'["D"])
          THEN /\ pc' = "raised"
               /\ UNCHANGED <<G_adj, connection_type, status, days_with_disease>>
          ELSE \E H \in watts_strogatz_graph(n, parameters'["D"],
                                             parameters'["epsilon"]) :
                 LET g == make_structural_changes(
                            [adj |-> G_adj, ct |-> connection_type,
                             status |-> status,
                             days_with_disease |-> days_with_disease], H)
                 IN /\ G_adj' = g.adj
                    /\ connection_type' = g.ct
                    /\ status' = g.status
                    /\ days_with_disease' = g.days_with_disease
                    /\ pc' = LoopTest(day)
     ELSE /\ UNCHANGED <<G_adj, connection_type, status, days_with_disease>>
          /\ pc' = LoopTest(day)
  /\ UNCHANGED <<call, returned, npi_parameters, max_days, day, G_nodes, daily_cases, seeds,
                 infected_on, trials, new_infections, counted>>

Next ==
  \/ generate_epidemic_network
  \/ distribute_initial_infection
  \/ count_daily_cases
  \/ update_disease_progress
  \/ interact
  \/ advance_day
  \/ apply_NPI

Spec == Init /\ [][Next]_vars


(* ----------------------------- properties ------------------------------ *)
Statuses == {"susceptible", "infected", "recovered"}

EverInfected == {person \in G_nodes : status[person] # "susceptible"}

(* the configuration the run was started with *)
InitialParameters ==
  IF npi_log = <<>> THEN parameters ELSE npi_log[1].parameters_before

(* number of progress steps that have run *)
ProgressesRun ==
  IF pc = "progress" THEN Len(daily_cases) - 1 ELSE Len(daily_cases)

(* C1: a node's status only changes susceptible -> infected (at seeding or *)
(* in a transmit step) or infected -> recovered (in a progress step).      *)
C1_MonotonicStatus ==
  [][\A person \in G_nodes :
       status'[person] # status[person] =>
         \/ /\ status[person] = "susceptible"
            /\ status'[person] = "infected"
            /\ pc \in {"seed", "transmit"}
         \/ /\ status[person] = "infected"
            /\ status'[person] = "recovered"
            /\ pc = "progress"]_vars

C1_Witness ==
  /\ npi_log # <<>>
  /\ \E person \in G_nodes : status[person] = "recovered"
  /\ \E person \in G_nodes : status[person] = "infected" /\ infected_on[person] >= 1
  /\ \E person \in G_nodes : status[person] = "susceptible"

(* C2: every node has one of the three statuses, and carries               *)
(* days_with_disease (an integer >= 1) exactly when it is infected.        *)
C2_StatusAndDays ==
  \A person \in G_nodes :
    /\ status[person] \in Statuses
    /\ (days_with_disease[person] # None) <=> (status[person] = "infected")
    /\ days_with_disease[person] # None => days_with_disease[person] >= 1

C2_Witness ==
  /\ pc = "transmit"
  /\ \E person \in G_nodes :
       status[person] = "recovered" /\ days_with_disease[person] = None
  /\ \E person \in G_nodes :
       status[person] = "infected" /\ days_with_disease[person] >= 2


(* nodes infected by the transmit steps of days 1 .. last *)
RECURSIVE SumPrefix(_, _)
SumPrefix(s, last) ==
  IF last <= 0 THEN 0 ELSE s[last] + SumPrefix(s, last - 1)

(* C3 as stated: when the run has finished, the sum of the daily cases is  *)
(* the number of nodes that ever became infected (the seeds plus every     *)
(* node infected by a transmit step of days 1 .. max_days).                *)
C3_SumIsEverInfected ==
  pc = "done" =>
    /\ SumSeq(daily_cases) = Cardinality(EverInfected)
    /\ SumSeq(daily_cases) =
         parameters["i0"] + SumPrefix(new_infections, max_days)

(* C3 amended: when the run has finished, the sum of the daily cases is    *)
(* the seeds plus the nodes infected by the transmit steps of days         *)
(* 1 .. max_days - 1; the nodes infected by the last day's transmit step   *)
(* are in no entry.                                                        *)
C3_SumExcludesLastDay ==
  pc = "done" =>
    /\ SumSeq(daily_cases) =
         parameters["i0"] + SumPrefix(new_infections, max_days - 1)
    /\ SumSeq(daily_cases) =
         Cardinality(EverInfected) - new_infections[max_days]
    /\ SumSeq(daily_cases) =
         Cardinality({person \in G_nodes :
            infected_on[person] # None /\ infected_on[person] < max_days})

C3_Witness ==
  /\ pc = "done"
  /\ new_infections[max_days] > 0
  /\ SumSeq(daily_cases) > parameters["i0"]

(* C4: no node is in more than one daily-case entry; the running sum of    *)
(* the daily cases never exceeds the number of nodes nor the number of     *)
(* nodes that are now infected or recovered.                               *)
C4_CountedAtMostOnce ==
  /\ \A person \in G_nodes : counted[person] <= 1
  /\ SumSeq(daily_cases) =
       Cardinality({person \in G_nodes : counted[person] >= 1})
  /\ SumSeq(daily_cases) <= Cardinality(G_nodes)
  /\ SumSeq(daily_cases) <= Cardinality(EverInfected)

C4_Witness ==
  /\ Len(daily_cases) >= 3
  /\ daily_cases[2] > 0
  /\ \E person \in G_nodes :
       counted[person] = 1 /\ status[person] = "infected"
         /\ days_with_disease[person] >= 2

(* C5: the entry of day 1 is i0, and the entry of every day t >= 2 is the  *)
(* number of nodes that day t-1's transmit step moved from susceptible to  *)
(* infected, also when an NPI is applied in between.                       *)
C5_OneDayLag ==
  /\ Len(daily_cases) >= 1 => daily_cases[1] = parameters["i0"]
  /\ \A t \in 2..Len(daily_cases) : daily_cases[t] = new_infections[t - 1]

C5_Witness ==
  /\ npi_log # <<>>
  /\ \E t \in 2..Len(daily_cases) :
       /\ daily_cases[t] > 0
       /\ daily_cases[t] # daily_cases[1]
       /\ npi_log[1].counts = t - 1

(* C6: in one transmit step every trial is made on an edge from a node     *)
(* that was infected when the step began to a node that is susceptible at  *)
(* the moment of the trial; a node infected by a trial gets no further     *)
(* trial in that step, so it is moved to infected at most once.            *)
C6_OneInfectionPerStep ==
  \A i \in 1..Len(trials) :
    /\ trials[i].source_at_start = "infected"
    /\ trials[i].target_at_trial = "susceptible"
    /\ pc = "advance" => {trials[i].person1, trials[i].person2} \in Edges(G_adj)
    /\ trials[i].occurred =>
         \A j \in (i + 1)..Len(trials) : trials[j].person2 # trials[i].person2

(* a node with two neighbours that were sources of the step, infected by   *)
(* the trial of the first one                                              *)
C6_Witness ==
  /\ pc = "advance"
  /\ \E i \in 1..Len(trials) :
       /\ trials[i].occurred
       /\ \E other \in G_nodes :
            /\ other > trials[i].person1
            /\ InSeq(trials[i].person2, G_adj[other])
            /\ status[other] = "infected"
            /\ infected_on[other] < day


AllRates(r, value) == r["intra"] = value /\ r["inter"] = value

(* the rate is `value' for every edge type throughout the run *)
RatesAlways(value) ==
  /\ AllRates(InitialParameters["r"], value)
  /\ "r" \in DOMAIN npi_parameters => AllRates(npi_parameters["r"], value)

ZeroRateOutcome ==
  /\ pc \notin {"generate", "seed"} => EverInfected = seeds
  /\ Len(daily_cases) >= 1 => daily_cases[1] = InitialParameters["i0"]
  /\ \A t \in 2..Len(daily_cases) : daily_cases[t] = 0

SeedsRecovered == \A person \in seeds : status[person] = "recovered"

(* C7 as stated: with rate 0 for every edge type and no NPI raising it,    *)
(* only the seeds are ever infected, the daily cases are i0 on day 1 and 0 *)
(* later, and every seed is recovered once the progress step of day d has  *)
(* run, d being the configured duration.                                   *)
C7_ZeroRateSeedsRecoverByD ==
  RatesAlways(0) =>
    /\ ZeroRateOutcome
    /\ ProgressesRun >= InitialParameters["d"] => SeedsRecovered

(* the day whose progress step recovers the seeds: the configured d,       *)
(* unless an NPI applied before day d's progress step raises the duration  *)
RecoveryDay ==
  LET d0 == InitialParameters["d"]
  IN IF /\ "d" \in DOMAIN npi_parameters
        /\ npi_parameters["d"] > d0
        /\ npi_parameters["npi_start_day"] \in 2..d0
     THEN npi_parameters["d"] ELSE d0

(* C7 amended: as C7, but the seeds are recovered once the progress step   *)
(* of day d has run only if no NPI applied before that step raises d; if   *)
(* one does, they are recovered once the progress step of the day of the   *)
(* raised duration has run.                                                *)
C7_ZeroRateSeedsRecover ==
  RatesAlways(0) =>
    /\ ZeroRateOutcome
    /\ ProgressesRun >= RecoveryDay => SeedsRecovered

C7_Witness ==
  /\ RatesAlways(0)
  /\ InitialParameters["d"] = 2
  /\ npi_log # <<>>
  /\ ProgressesRun = 2
  /\ seeds # {}
  /\ SeedsRecovered
  /\ daily_cases[2] = 0
  /\ \E person \in seeds : \E other \in G_nodes :
       InSeq(other, G_adj[person]) /\ status[other] = "susceptible"

(* nodes within k edges of S *)
RECURSIVE Ball(_, _)
Ball(S, k) ==
  IF k = 0 THEN S
  ELSE LET B == Ball(S, k - 1)
       IN B \cup {person \in G_nodes : \E q \in B : InSeq(person, G_adj[q])}

TransmitsRun == Len(new_infections)

InfectedWithinDistance ==
  \A k \in 1..Cardinality(G_nodes) :
    \A person \in Ball(seeds, k) \ Ball(seeds, k - 1) :
      TransmitsRun >= k =>
        /\ status[person] # "susceptible"
        /\ infected_on[person] \in 1..k

(* C8 as stated: with rate 1 for every edge type, any duration d >= 1 and  *)
(* no NPI, a node at distance k >= 1 from the seed set is infected no      *)
(* later than day k's transmit step.                                       *)
C8_RateOneSpreadsAnyD ==
  (RatesAlways(100) /\ DOMAIN npi_parameters = {} /\ parameters["d"] >= 1
     /\ pc \notin {"generate", "seed"})
    => InfectedWithinDistance

(* C8 amended: the same for every duration d >= 2 (with d = 1 a node       *)
(* recovers in the progress step that precedes its first transmit step).   *)
C8_RateOneSpreads ==
  (RatesAlways(100) /\ DOMAIN npi_parameters = {} /\ parameters["d"] >= 2
     /\ pc \notin {"generate", "seed"})
    => InfectedWithinDistance

C8_Witness ==
  /\ RatesAlways(100) /\ DOMAIN npi_parameters = {} /\ parameters["d"] >= 2
  /\ TransmitsRun = 3
  /\ \E person \in Ball(seeds, 3) \ Ball(seeds, 2) : infected_on[person] = 3
  /\ EverInfected = G_nodes


NpiConfigured == DOMAIN npi_parameters # {}

(* C9 as stated: an intervention configured for day t, 1 <= t <= max_days, *)
(* is applied exactly once, after day t's count, progress and transmit     *)
(* steps and before day t+1's count step.                                  *)
C9_AppliedAfterDayT ==
  (NpiConfigured /\ npi_parameters["npi_start_day"] \in 1..max_days) =>
    LET t == npi_parameters["npi_start_day"]
    IN /\ Len(npi_log) <= 1
       /\ \A i \in 1..Len(npi_log) :
            npi_log[i].counts = t /\ npi_log[i].transmits = t
       /\ pc = "done" => Len(npi_log) = 1

(* C9 amended: an intervention configured for day t is applied exactly     *)
(* once when 2 <= t <= max_days + 1, between day t-1's transmit step and   *)
(* day t's count step, so that day t's three steps already use the new     *)
(* parameters and edge set; configured for day 1 (or for a day after       *)
(* max_days + 1) it is never applied.  It is never applied between two     *)
(* phases of a day.                                                        *)
C9_AppliedBeforeDayT ==
  /\ ~NpiConfigured => npi_log = <<>>
  /\ NpiConfigured =>
       LET t == npi_parameters["npi_start_day"]
       IN /\ Len(npi_log) <= 1
          /\ \A i \in 1..Len(npi_log) :
               /\ npi_log[i].day = t
               /\ npi_log[i].counts = t - 1
               /\ npi_log[i].transmits = t - 1
          /\ (t \in 2..(max_days + 1) /\ (Len(daily_cases) >= t \/ pc = "done"))
               => Len(npi_log) = 1
          /\ t \notin 2..(max_days + 1) => npi_log = <<>>
          /\ pc = "npi" => (day = t /\ Len(daily_cases) = TransmitsRun)

C9_Witness ==
  /\ pc = "done"
  /\ Len(npi_log) = 1
  /\ npi_parameters["npi_start_day"] \in 2..max_days
  /\ Len(daily_cases) = max_days

(* C10: an NPI whose override has neither D nor epsilon leaves the edges   *)
(* and their tags as they were; afterwards every key of the override has   *)
(* the override's value and every other key its previous value.            *)
C10_ParameterOnlyNPI ==
  (npi_log # <<>> /\ ~(\E key \in {"D", "epsilon"} : key \in DOMAIN npi_parameters)) =>
    LET before == npi_log[1]
    IN /\ G_adj = before.adj_before
       /\ Edges(G_adj) = Edges(before.adj_before)
       /\ connection_type = before.types_before
       /\ DOMAIN parameters =
            (DOMAIN before.parameters_before) \cup (DOMAIN npi_parameters)
       /\ \A key \in DOMAIN npi_parameters :
            parameters[key] = npi_parameters[key]
       /\ \A key \in (DOMAIN before.parameters_before) \ (DOMAIN npi_parameters) :
            parameters[key] = before.parameters_before[key]

C10_Witness ==
  /\ npi_log # <<>>
  /\ DOMAIN npi_parameters = {"r", "npi_start_day"}
  /\ parameters["r"] # npi_log[1].parameters_before["r"]
  /\ Edges(G_adj) # {}
  /\ \E e \in DOMAIN connection_type : connection_type[e] = "intra"
  /\ pc = "done"


StructuralNPIApplied ==
  npi_log # <<>> /\ (\E key \in {"D", "epsilon"} : key \in DOMAIN npi_parameters)

(* C11: an NPI whose override has D or epsilon replaces the edges but      *)
(* leaves the node set, every status and every days_with_disease as they   *)
(* were immediately before the regeneration.                               *)
C11_RegenerationKeepsNodeState ==
  [][(pc = "npi" /\ (\E key \in {"D", "epsilon"} : key \in DOMAIN npi_parameters)) =>
       /\ G_nodes' = G_nodes
       /\ DOMAIN G_adj' = G_nodes
       /\ status' = status
       /\ days_with_disease' = days_with_disease
       /\ pc' # "raised" =>
            Edges(G_adj') \in {Edges(H) : H \in watts_strogatz_graph(
                 Cardinality(G_nodes), parameters'["D"], parameters'["epsilon"])}]_vars

C11_Witness ==
  /\ StructuralNPIApplied
  /\ Edges(G_adj) # Edges(npi_log[1].adj_before)
  /\ status = npi_log[1].status_before
  /\ \E person \in G_nodes : status[person] = "recovered"
  /\ \E person \in G_nodes :
       status[person] = "infected" /\ days_with_disease[person] >= 2
  /\ \E person \in G_nodes : status[person] = "susceptible"


(* the graphs the builder of the initial graph yields for the parameters   *)
(* now in force                                                            *)
BuilderGraphs ==
  LET is_list == "household_distribution" \in DOMAIN parameters
      distribution == IF is_list THEN parameters["household_distribution"]
                      ELSE parameters["n"]
  IN watts_strogatz_clique_graph(distribution, is_list,
                                 parameters["D"], parameters["epsilon"])

(* C12: after an NPI that changes D or epsilon the graph is one the        *)
(* builder of the initial graph yields for the same input (household       *)
(* cliques tagged intra, a rewired ring over the heads tagged inter), and  *)
(* every edge carries a connection type.                                   *)
C12_RegeneratedBySameBuilder ==
  (StructuralNPIApplied /\ pc # "raised") =>
    /\ \A e \in Edges(G_adj) :
         e \in DOMAIN connection_type /\ connection_type[e] \in {"intra", "inter"}
    /\ \E g \in BuilderGraphs :
         Edges(G_adj) = Edges(g.adj) /\ connection_type = g.ct


(* C13: for every valid configuration, with or without an NPI, the run     *)
(* executes exactly max_days day steps and stops without raising:          *)
(* daily_cases has k entries after k completed day steps and max_days      *)
(* entries when the run is finished.                                       *)
C13_RunsMaxDaysWithoutRaising ==
  /\ pc # "raised"
  /\ pc \in {"count", "npi", "done"} => Len(daily_cases) = day - 1
  /\ pc = "done" => Len(daily_cases) = max_days


(* --------------------- invalid configurations -------------------------- *)
(* one parameter of an otherwise valid configuration is out of range: i0   *)
(* above the node count, a rate or the rewiring probability outside        *)
(* [0, 1], a duration d <= 0                                               *)
InvalidFields ==
  {[i0 |-> 6],
   [r |-> [intra |-> 150, inter |-> 150]],
   [r |-> [intra |-> 0 - 50, inter |-> 0 - 50]],
   [epsilon |-> 150],
   [epsilon |-> 0 - 50],
   [d |-> 0],
   [d |-> 0 - 1]}

InvalidParameterSet ==
  {Merge(Merge([D |-> 2, epsilon |-> 0, r |-> [intra |-> 100, inter |-> 100],
                d |-> 2, i0 |-> i], s), f) :
     i \in 1..MaxI0, s \in Shapes, f \in InvalidFields}

InitInvalid ==
  /\ pc = "generate"
  /\ parameters \in InvalidParameterSet
  /\ npi_parameters \in
       {NoNPI, [r |-> [intra |-> 100, inter |-> 100], npi_start_day |-> 2]}
  /\ max_days = MaxDays
  /\ day = 1
  /\ G_nodes = {}
  /\ G_adj = <<>>
  /\ connection_type = <<>>
  /\ status = <<>>
  /\ days_with_disease = <<>>
  /\ daily_cases = <<>>
  /\ seeds = {}
  /\ infected_on = <<>>
  /\ trials = <<>>
  /\ new_infections = <<>>
  /\ counted = <<>>
  /\ npi_log = <<>>
  /\ call = NoCall
  /\ returned = NotReturned

SpecInvalid == InitInvalid /\ [][Next]_vars

(* C14: constructing the engine with an invalid configuration ends in an   *)
(* error raised before any day step runs: no daily-case entry is appended  *)
(* and no node changes status by progress or transmit.                     *)
C14_InvalidConfigurationRejected ==
  /\ pc \in {"generate", "seed", "raised"}
  /\ daily_cases = <<>>
  /\ new_infections = <<>>
  /\ \A person \in G_nodes : status[person] # "recovered"

(* ------------- network_generator/poisson_small_world_network ----------- *)
MaxDegree == 5

(* math.ceil(num_connections / 2) for a non-negative draw *)
ceil_half(num_connections) == (num_connections + 1) \div 2

sorted_pair(a, b) == IF a <= b THEN <<a, b>> ELSE <<b, a>>

(* right_connections[right_connections > number_of_nodes - 1] -= n         *)
wrap_right(i, number_of_nodes) ==
  IF i > number_of_nodes - 1 THEN i - number_of_nodes ELSE i

(* left_connections[left_connections < 0] += number_of_nodes               *)
wrap_left(i, number_of_nodes) == IF i < 0 THEN i + number_of_nodes ELSE i

(* the list of sorted [node, neighbor] pairs, right neighbours first       *)
get_nearest_neighbors_connections(node, num_connections, number_of_nodes) ==
  LET connections_to_right == ceil_half(num_connections)
      connections_to_left == num_connections - connections_to_right
      right_connections ==
        [j \in 1..connections_to_right |-> wrap_right(node + j, number_of_nodes)]
      left_connections ==
        [j \in 1..connections_to_left |->
           wrap_left(node - connections_to_left + (j - 1), number_of_nodes)]
      neighbor_to_connect == right_connections \o left_connections
  IN [i \in 1..Len(neighbor_to_connect) |->
        sorted_pair(node, neighbor_to_connect[i])]

(* choices([True, False], weights=[probability, 1 - probability])          *)
is_rewired(probability) ==
  {b \in BOOLEAN : (b /\ probability > 0) \/ (~b /\ probability < 100)}

(* nodes.remove(node) raises ValueError when node is not in range(n);      *)
(* choice(nodes) raises IndexError when no other node is left              *)
rewire_connection_raises(node_connection, number_of_nodes) ==
  \/ node_connection[1] \notin 0..(number_of_nodes - 1)
  \/ number_of_nodes = 1

(* the connections __rewire_connection can return when it does not raise   *)
rewire_connection(node_connection, probability, number_of_nodes) ==
  {node_connection : x \in {b \in is_rewired(probability) : ~b}} \cup
  {<<node_connection[1], rewired_neighbor>> :
     rewired_neighbor \in
       IF TRUE \in is_rewired(probability) /\
          ~rewire_connection_raises(node_connection, number_of_nodes)
       THEN (0..(number_of_nodes - 1)) \ {node_connection[1]}
       ELSE {}}

(* the possible results of the list comprehension over the connections:    *)
(* every choice of one outcome for each connection                         *)
RECURSIVE rewire_all(_, _, _)
rewire_all(connections, probability, number_of_nodes) ==
  IF connections = {} THEN {{}}
  ELSE LET c == CHOOSE x \in connections : TRUE
       IN {rest \cup {new} :
             rest \in rewire_all(connections \ {c}, probability, number_of_nodes),
             new \in rewire_connection(c, probability, number_of_nodes)}

connectivity_without_repeated_edges(number_of_nodes, connectivity_distribution) ==
  UNION {{get_nearest_neighbors_connections(node - 1,
             connectivity_distribution[node], number_of_nodes)[i] :
            i \in 1..connectivity_distribution[node]} :
         node \in 1..number_of_nodes}

(* __create_edges with the Poisson draw given: can it raise, and the edge  *)
(* lists it can return                                                     *)
poisson_create_edges_raises(number_of_nodes, connectivity_distribution, rewiring_probability) ==
  \/ rewiring_probability < 0
  \/ /\ rewiring_probability > 0
     /\ \E c \in connectivity_without_repeated_edges(number_of_nodes,
                                                     connectivity_distribution) :
          rewire_connection_raises(c, number_of_nodes)

poisson_create_edges(number_of_nodes, connectivity_distribution, rewiring_probability) ==
  IF rewiring_probability < 0 THEN {}
  ELSE IF rewiring_probability > 0
       THEN rewire_all(connectivity_without_repeated_edges(number_of_nodes,
                         connectivity_distribution),
                       rewiring_probability, number_of_nodes)
       ELSE {connectivity_without_repeated_edges(number_of_nodes,
                                                 connectivity_distribution)}

(* an nx.Graph as its node-attribute dictionary and its set of unordered   *)
(* endpoint pairs ({u} is a self-loop); nx.Graph() has no nodes            *)
EmptyNxGraph == [node |-> [u \in {} |-> None], edge |-> {}]

(* G.add_edges_from: missing endpoints become nodes without attributes     *)
nx_add_edges_from(G, ebunch) ==
  LET ends == UNION {{e[1], e[2]} : e \in ebunch}
  IN [node |-> [u \in DOMAIN G.node \cup ends |->
                  IF u \in DOMAIN G.node THEN G.node[u] ELSE None],
      edge |-> G.edge \cup {{e[1], e[2]} : e \in ebunch}]

(* lines 84-89: a copy of Graph_to_update with its edges removed, or a     *)
(* fresh graph on range(n); an nx.Graph without nodes is falsy             *)
poisson_start_graph(n, Graph_to_update) ==
  IF DOMAIN Graph_to_update.node # {}
  THEN [node |-> Graph_to_update.node, edge |-> {}]
  ELSE [node |-> [u \in 0..(n - 1) |-> None], edge |-> {}]

poisson_small_world_graph(n, connectivity_distribution, p, Graph_to_update) ==
  {nx_add_edges_from(poisson_start_graph(n, Graph_to_update), edges) :
     edges \in poisson_create_edges(n, connectivity_distribution, p)}

(* ------------------------- calls of the builders ----------------------- *)
RingSizes == {1, 2, 3}
PoissonSizes == {2, 3}
RewiringSet == {0, 50, 100}

(* existing graphs handed to the update mode: range(n) with node           *)
(* attributes and some edges                                               *)
ExistingGraphs(n) ==
  {[node |-> [u \in 0..(n - 1) |-> IF u = 0 THEN "infected" ELSE "susceptible"],
    edge |-> es] :
     es \in {{{u, v} : u, v \in 0..(n - 1)} \ {{u} : u \in 0..(n - 1)},
             {{0, n - 1}}}}

DegreeVectors(n) == [1..n -> 0..MaxDegree]

NeighborCalls ==
  {[op |-> "get_nearest_neighbors_connections", node |-> node,
    num_connections |-> degree, number_of_nodes |-> n] :
     n \in RingSizes, node \in 0..2, degree \in 0..MaxDegree}

PoissonCalls ==
  UNION {{[op |-> "poisson_small_world_graph", n |-> n,
           connectivity_distribution |-> degrees, p |-> p,
           Graph_to_update |-> G] :
            degrees \in DegreeVectors(n), p \in RewiringSet,
            G \in {EmptyNxGraph} \cup ExistingGraphs(n)} :
         n \in PoissonSizes}

CliqueSizes ==
  {<<5>>, <<1>>, <<1, 1>>, <<1, 1, 1>>, <<2, 1>>, <<1, 3>>, <<2, 2>>,
   <<3, 1, 2>>, <<2, 1, 1, 1>>}

CliqueCalls ==
  {[op |-> "watts_strogatz_clique_graph", household_sizes |-> sizes,
    k |-> k, p |-> p] :
     sizes \in CliqueSizes, k \in 0..4, p \in {0, 100}}

InitBuilders ==
  /\ pc = "builder"
  /\ call \in {c \in NeighborCalls : c.node < c.number_of_nodes}
              \cup PoissonCalls \cup CliqueCalls
  /\ returned = NotReturned
  /\ parameters = <<>>
  /\ npi_parameters = <<>>
  /\ max_days = 0
  /\ day = 1
  /\ G_nodes = {}
  /\ G_adj = <<>>
  /\ connection_type = <<>>
  /\ status = <<>>
  /\ days_with_disease = <<>>
  /\ daily_cases = <<>>
  /\ seeds = {}
  /\ infected_on = <<>>
  /\ trials = <<>>
  /\ new_infections = <<>>
  /\ counted = <<>>
  /\ npi_log = <<>>

EngineIdle ==
  UNCHANGED <<pc, parameters, npi_parameters, max_days, day, G_nodes, G_adj,
              connection_type, status, days_with_disease, daily_cases, seeds,
              infected_on, trials, new_infections, counted, npi_log>>

call_get_nearest_neighbors_connections ==
  /\ call.op = "get_nearest_neighbors_connections"
  /\ ~returned.done
  /\ returned' = [done |-> TRUE, raised |-> FALSE,
                  value |-> get_nearest_neighbors_connections(call.node,
                              call.num_connections, call.number_of_nodes)]
  /\ UNCHANGED call
  /\ EngineIdle

(* the graph passed in is only copied (line 85), so call is unchanged      *)
call_poisson_small_world_graph ==
  /\ call.op = "poisson_small_world_graph"
  /\ ~returned.done
  /\ \/ /\ poisson_create_edges_raises(call.n, call.connectivity_distribution,
                                       call.p)
        /\ returned' = [done |-> TRUE, raised |-> TRUE]
     \/ \E G \in poisson_small_world_graph(call.n,
                   call.connectivity_distribution, call.p, call.Graph_to_update) :
          returned' = [done |-> TRUE, raised |-> FALSE, value |-> G]
  /\ UNCHANGED call
  /\ EngineIdle

call_watts_strogatz_clique_graph ==
  /\ call.op = "watts_strogatz_clique_graph"
  /\ ~returned.done
  /\ IF watts_strogatz_raises(Len(call.household_sizes), call.k)
     THEN returned' = [done |-> TRUE, raised |-> TRUE]
     ELSE \E g \in watts_strogatz_clique_graph(call.household_sizes, TRUE,
                     call.k, call.p) :
            returned' = [done |-> TRUE, raised |-> FALSE, value |-> g]
  /\ UNCHANGED call
  /\ EngineIdle

NextBuilders ==
  \/ call_get_nearest_neighbors_connections
  \/ call_poisson_small_world_graph
  \/ call_watts_strogatz_clique_graph

SpecBuilders == InitBuilders /\ [][NextBuilders]_vars

PoissonReturned ==
  call.op = "poisson_small_world_graph" /\ returned.done /\ ~returned.raised

(* C15: for every n >= 2, every vector of drawn degrees (degrees >= n      *)
(* included) and every outcome of the rewiring choices, the graph the      *)
(* Poisson-degree builder returns has no self-loop, no repeated unordered  *)
(* endpoint pair (an nx.Graph holds each pair once, so the edge set has    *)
(* none by construction) and only endpoints in [0, n).                     *)
C15_PoissonGraphIsSimple ==
  (PoissonReturned /\ call.n >= 2) =>
    \A e \in returned.value.edge :
      Cardinality(e) = 2 /\ e \subseteq 0..(call.n - 1)

(* C16: the update mode, applied to an existing non-empty graph, returns   *)
(* a graph with exactly the node identifiers and node attributes of the    *)
(* existing graph and with only newly generated edges; the graph passed    *)
(* in is left unmodified.                                                  *)
C16_UpdateKeepsNodesReplacesEdges ==
  [][(call.op = "poisson_small_world_graph" /\
      DOMAIN call.Graph_to_update.node # {}) =>
       /\ call' = call
       /\ ~returned'.raised =>
            /\ returned'.value.node = call.Graph_to_update.node
            /\ \E edges \in poisson_create_edges(call.n,
                              call.connectivity_distribution, call.p) :
                 returned'.value.edge = {{e[1], e[2]} : e \in edges}]_vars

CliqueReturned == call.op = "watts_strogatz_clique_graph" /\ returned.done

(* household i (0-based): its head i and its size - 1 new identifiers,     *)
(* allocated contiguously after the heads in household order               *)
Members(sizes, i) ==
  LET before == SumSeq([h \in 1..i |-> sizes[h] - 1])
  IN {i} \cup {Len(sizes) + before + j : j \in 0..(sizes[i + 1] - 2)}

SameHouseholdPairs(sizes) ==
  UNION {{{u, v} : u, v \in Members(sizes, i)} \ {{u} : u \in Members(sizes, i)} :
         i \in 0..(Len(sizes) - 1)}

CliqueStructure(sizes, g) ==
  LET heads == 0..(Len(sizes) - 1)
      total == SumSeq(sizes)
  IN /\ DOMAIN g.adj = 0..(total - 1)
     /\ DOMAIN g.ct = Edges(g.adj)
     /\ {e \in Edges(g.adj) : g.ct[e] = "intra"} = SameHouseholdPairs(sizes)
     /\ \A e \in Edges(g.adj) :
          g.ct[e] # "intra" => g.ct[e] = "inter" /\ e \subseteq heads
     /\ \A u \in (0..(total - 1)) \ heads :
          Cardinality({i \in heads : u \in Members(sizes, i)}) = 1
     /\ (\A i \in 1..Len(sizes) : sizes[i] = 1) =>
          /\ \A e \in Edges(g.adj) : g.ct[e] = "inter"
          /\ Cardinality(DOMAIN g.adj) = Len(sizes)
     /\ sizes = <<5>> =>
          /\ Edges(g.adj) = {{u, v} : u, v \in 0..4} \ {{u} : u \in 0..4}
          /\ \A e \in Edges(g.adj) : g.ct[e] = "intra"

ModuloNeighbors(node, degree, n) ==
  {sorted_pair(node, (node + j) % n) : j \in 1..ceil_half(degree)} \cup
  {sorted_pair(node, (node + j * n - j) % n) :
     j \in 1..(degree - ceil_half(degree))}

(* C18: for every ring size n >= 1, node in [0, n) and degree >= 0 the     *)
(* ring-lattice neighbour function returns exactly the pairs (min, max)    *)
(* joining the node to the ceil(degree/2) positions after it and the       *)
(* floor(degree/2) positions before it, each reduced modulo n, also when   *)
(* a step count reaches or exceeds n.                                      *)
C18_NeighborsWrapModulo ==
  (call.op = "get_nearest_neighbors_connections" /\ returned.done) =>
    {returned.value[i] : i \in 1..Len(returned.value)} =
      ModuloNeighbors(call.node, call.num_connections, call.number_of_nodes)

Neighbors(person) == {G_adj[person][i] : i \in 1..Len(G_adj[person])}

(* C19: in day t's transmit step the nodes that can infect others are      *)
(* exactly the nodes infected after day t's progress step (the state the   *)
(* transmit step starts from): every trial has such a node as its source   *)
(* and a non-source as its target, every such node tries each neighbour    *)
(* that is still susceptible, so a node recovered in day t's progress or   *)
(* infected during day t's transmit causes no infection on day t; with     *)
(* d = 1 there is no source at all.                                        *)
C19_SourcesAreInfectedAfterProgress ==
  [][pc = "transmit" =>
       LET sources == {person \in G_nodes : status[person] = "infected"}
       IN /\ \A i \in 1..Len(trials') :
               /\ trials'[i].person1 \in sources
               /\ trials'[i].person2 \notin sources
          /\ pc' = "advance" =>
               \A person1 \in sources : \A person2 \in Neighbors(person1) :
                 status'[person2] = "susceptible" =>
                   \E i \in 1..Len(trials') :
                     /\ trials'[i].person1 = person1
                     /\ trials'[i].person2 = person2
                     /\ ~trials'[i].occurred
          /\ parameters["d"] = 1 => sources = {} /\ trials' = <<>>]_vars

C19_Witness ==
  /\ pc = "advance"
  /\ \E i \in 1..Len(trials) : trials[i].occurred
  /\ \E person \in G_nodes :
       /\ infected_on[person] = day
       /\ \E other \in Neighbors(person) : status[other] = "susceptible"
  /\ \E person \in G_nodes :
       status[person] = "recovered" /\ infected_on[person] < day

(* the epidemic is running or over, and no node is infected *)
Extinct ==
  /\ pc \in {"count", "progress", "transmit", "advance", "npi", "done"}
  /\ \A person \in G_nodes : status[person] # "infected"

(* C20: extinction is absorbing: once no node is infected, every later     *)
(* step of the run - a count, progress or transmit step, or an NPI that    *)
(* regenerates the edges or changes the rates - leaves every node's status *)
(* unchanged (so nobody is infected again), and every daily-case entry     *)
(* appended from then on is 0.                                             *)
C20_ExtinctionIsAbsorbing ==
  [][Extinct =>
       /\ status' = status
       /\ Extinct'
       /\ daily_cases' # daily_cases =>
            /\ Len(daily_cases') = Len(daily_cases) + 1
            /\ daily_cases'[Len(daily_cases')] = 0]_vars

C20_Witness ==
  /\ pc = "done"
  /\ npi_log # <<>>
  /\ \A person \in G_nodes : npi_log[1].status_before[person] # "infected"
  /\ touches_structure(npi_parameters)
  /\ Edges(G_adj) # Edges(npi_log[1].adj_before)
  /\ npi_log[1].transmits < Len(new_infections)
  /\ npi_log[1].counts < Len(daily_cases)
  /\ \E person \in G_nodes :
       /\ status[person] = "recovered"
       /\ \E other \in Neighbors(person) : status[other] = "susceptible"

====
